---- MODULE Spec2Model ----
(***************************************************************************)
(* T2A assistant: CCAM code search, compatibility check, billing plan and  *)
(* the classifier of scraped "frequently associated" codes.                *)
(*                                                                         *)
(* The SQLite database is the state: the tables ccam_codes, associations   *)
(* and frequent_associations, plus the two JSON files the classifier       *)
(* reads and writes.  Every query-time method of CCAMSearch is one action. *)
(***************************************************************************)
EXTENDS Integers, Sequences, FiniteSets, TLC

VARIABLES
    ccam_codes,             \* table ccam_codes: code -> row (DOMAIN = catalogued codes)
    associations,           \* table associations: set of rows, key (code, associated_code, activity)
    scraped,                \* data/frequent_associations.json: source code -> raw candidate list
    validated,              \* data/validated_associations.json: [exists, data]
    frequent_associations,  \* table frequent_associations: [exists, rows]
    op,                     \* the last call and its arguments
    result,                 \* what the last call returned
    queries,                \* the SQL statements the last call executed, in order
    integrate_pc,           \* how far a running integrate() has got
    chapters,               \* table chapters: its rows in insertion order
    current_chapter         \* parse_complementary_file: the chapter context, by level

vars == <<ccam_codes, associations, scraped, validated, frequent_associations,
          op, result, queries, integrate_pc, chapters, current_chapter>>

----------------------------------------------------------------------------
(* Values *)

NULL == "NULL"

\* A nullable REAL column: the empty tuple for NULL, <<v>> for the number v.
NullNum == <<>>
Num(v) == <<v>>

\* The code identifiers of the model (4 letters + 3 digits).
Codes == {"AAAA001", "BBBB002", "CCCC003"}

\* rowid order of ccam_codes (insertion order of the build).
RowOrder == <<"AAAA001", "BBBB002", "CCCC003">>

\* Identifiers a caller may pass: the codes and a lower-case spelling of one.
InputCodes == Codes \cup {"aaaa001"}

\* str.upper() on an identifier.
Upper(c) == IF c = "aaaa001" THEN "AAAA001" ELSE c

\* activity column of associations; the build derives the type from the column
\* the edge was read from.
Activities == {"text", "act123", "anesthesia"}

\* Order of the primary-key index on (code, associated_code, activity).
ActivityOrder == <<"act123", "anesthesia", "text">>

AssociationType(activity) ==
    IF activity = "anesthesia" THEN "complementary_anesthesia"
                               ELSE "complementary_gesture"

----------------------------------------------------------------------------
(* Bounds *)

MaxCodes == 3       \* longest code list passed to check_compatibility
MaxEdges == 2       \* most rows of the associations table
MaxRaw == 3         \* most scraped candidates over all source codes

----------------------------------------------------------------------------
(* Generic helpers *)

SeqsUpTo(S, n) == UNION {[1..k -> S] : k \in 0..n}

SubsetsUpTo(S, n) == {T \in SUBSET S : Cardinality(T) <= n}

RECURSIVE Flatten(_)
Flatten(ss) == IF ss = <<>> THEN <<>> ELSE Head(ss) \o Flatten(Tail(ss))

Take(s, n) == IF Len(s) <= n THEN s ELSE SubSeq(s, 1, n)

\* The elements of seq that are in S, in seq's order.
Restrict(seq, S) == SelectSeq(seq, LAMBDA x : x \in S)

Range(s) == {s[i] : i \in DOMAIN s}

----------------------------------------------------------------------------
(* Tables *)

\* A row of ccam_codes, reduced to the columns the engine reads.
CatalogRow(label, dateEnd, chapter, icr) ==
    [label_normalized |-> label, date_end |-> dateEnd,
     chapter_num |-> chapter, icr_public |-> icr]

\* A row of associations as the build inserts it.
Edge(c, t, activity) ==
    [code |-> c, associated_code |-> t,
     association_type |-> AssociationType(activity), activity |-> activity]

\* The build inserts an edge only for the code of the row it has just stored
\* and never towards that same code; the target may be any 7-character code.
EdgeUniverse(sources, targets) ==
    {Edge(c, t, a) : c \in sources, t \in targets, a \in Activities}
        \ {Edge(c, c, a) : c \in sources, a \in Activities}

\* SELECT association_type, activity FROM associations
\* WHERE code = c1 AND associated_code = c2   (rows in primary-key order)
SelectAssociations(c1, c2) ==
    LET S == {a \in associations : a.code = c1 /\ a.associated_code = c2}
        acts == Restrict(ActivityOrder, {a.activity : a \in S})
    IN  [i \in DOMAIN acts |-> CHOOSE a \in S : a.activity = acts[i]]

NoTable == [exists |-> FALSE, rows |-> {}]

\* current_chapter = {} : no chapter number seen yet at any of the four levels.
NoContext == [level \in 0..3 |-> NULL]
NoFile == [exists |-> FALSE, data |-> <<>>]
NoCall == [name |-> "none"]
NoResult == [kind |-> "none"]

\* CCAMSearch holds one connection and serves one call at a time: a call
\* starts when no result is pending, and Return hands the result to the caller.
Idle == result = NoResult

Return ==
    /\ ~Idle
    /\ op' = NoCall
    /\ result' = NoResult
    /\ queries' = <<>>
    /\ UNCHANGED <<ccam_codes, associations, scraped, validated, frequent_associations, integrate_pc, chapters, current_chapter>>

----------------------------------------------------------------------------
(* CCAMSearch.check_compatibility *)

Issue(type, code, codes, assocType, activity) ==
    [type |-> type, code |-> code, codes |-> codes,
     association_type |-> assocType, activity |-> activity]

UnknownIssue(code) == Issue("unknown_code", code, NULL, NULL, NULL)
ExpiredIssue(code) == Issue("expired_code", code, NULL, NULL, NULL)
OkIssue == Issue("ok", NULL, NULL, NULL, NULL)
AssociationIssue(code1, code2, a) ==
    Issue("has_association", NULL, <<code1, code2>>, a.association_type, a.activity)

\* The body of "if assoc12 or assoc21:": one issue per row of assoc12.
PairIssues(code1, code2, assoc12, assoc21) ==
    IF assoc12 # <<>> \/ assoc21 # <<>>
    THEN [k \in DOMAIN assoc12 |-> AssociationIssue(code1, code2, assoc12[k])]
    ELSE <<>>

\* The outer loop with a "continue" after the expired_code issue as well.
CodeIssues_ExpiredStops(codes, i) ==
    IF codes[i] \notin DOMAIN ccam_codes THEN <<UnknownIssue(codes[i])>>
    ELSE IF ccam_codes[codes[i]].date_end # NULL THEN <<ExpiredIssue(codes[i])>>
    ELSE Flatten([j \in DOMAIN codes |->
            IF i >= j THEN <<>>
            ELSE PairIssues(codes[i], codes[j],
                            SelectAssociations(codes[i], codes[j]),
                            SelectAssociations(codes[j], codes[i]))])

\* One iteration of the outer loop, for position i of the upper-cased list.
CodeIssues(codes, i) ==
    LET code1 == codes[i] IN
    IF code1 \notin DOMAIN ccam_codes
    THEN <<UnknownIssue(code1)>>
    ELSE (IF ccam_codes[code1].date_end # NULL THEN <<ExpiredIssue(code1)>> ELSE <<>>)
         \o Flatten([j \in DOMAIN codes |->
                IF i >= j THEN <<>>
                ELSE PairIssues(code1, codes[j],
                                SelectAssociations(code1, codes[j]),
                                SelectAssociations(codes[j], code1))])

\* The checker reporting the rows of frequent_associations as well.
check_compatibility_Observed(codes) ==
    LET up == [i \in DOMAIN codes |-> Upper(codes[i])]
        issues == Flatten([i \in DOMAIN up |-> CodeIssues(up, i)])
        observed == SelectSeq(up, LAMBDA c :
                        \E r \in frequent_associations.rows : r.code = c)
        all == issues \o [i \in DOMAIN observed |->
                    Issue("has_association", NULL, <<observed[i]>>, "frequent", NULL)]
    IN  IF all = <<>> THEN <<OkIssue>> ELSE all

\* The checker with the ok issue appended whatever the list holds.
check_compatibility_AlwaysOk(codes) ==
    Flatten([i \in DOMAIN codes |->
        CodeIssues([k \in DOMAIN codes |-> Upper(codes[k])], i)]) \o <<OkIssue>>

check_compatibility(codes) ==
    LET up == [i \in DOMAIN codes |-> Upper(codes[i])]
        issues == Flatten([i \in DOMAIN up |-> CodeIssues(up, i)])
    IN  IF issues = <<>> THEN <<OkIssue>> ELSE issues

\* A check that deletes the edges it has reported.
CheckCompatibility_Writes(codes) ==
    /\ Idle
    /\ op' = [name |-> "check_compatibility", codes |-> codes]
    /\ result' = [kind |-> "issues", issues |-> check_compatibility(codes)]
    /\ queries' = <<>>
    /\ associations' = {a \in associations : a.code \notin Range(codes)}
    /\ UNCHANGED <<ccam_codes, scraped, validated, frequent_associations,
                   integrate_pc, chapters, current_chapter>>

CheckCompatibility(codes) ==
    /\ Idle
    /\ op' = [name |-> "check_compatibility", codes |-> codes]
    /\ result' = [kind |-> "issues", issues |-> check_compatibility(codes)]
    /\ queries' = <<>>
    /\ UNCHANGED <<ccam_codes, associations, scraped, validated, frequent_associations, integrate_pc, chapters, current_chapter>>

\* The catalogue of the compatibility checks: two codes, each absent, active
\* or expired.
CheckCodes == {"AAAA001", "BBBB002"}
CheckInputs == CheckCodes \cup {"aaaa001"}
CheckRows == {CatalogRow(<<>>, d, NULL, NullNum) : d \in {NULL, "2020-01-01"}}

InitCheck ==
    /\ \E D \in SUBSET CheckCodes : ccam_codes \in [D -> CheckRows]
    /\ associations \in SubsetsUpTo(EdgeUniverse(DOMAIN ccam_codes, CheckCodes), MaxEdges)
    /\ scraped = <<>>
    /\ validated = NoFile
    /\ frequent_associations = NoTable
    /\ op = NoCall
    /\ result = NoResult
    /\ queries = <<>>
    /\ integrate_pc = "idle"
    /\ chapters = <<>>
    /\ current_chapter = NoContext

NextCheck ==
    \/ \E codes \in SeqsUpTo(CheckInputs, MaxCodes) : CheckCompatibility(codes)
    \/ Return

SpecCheck == InitCheck /\ [][NextCheck]_vars

----------------------------------------------------------------------------
(* validate_associations.validate *)

\* load_ccam_data: official[code] is the set of associated codes of its edges.
Official(source) == {a.associated_code : a \in {e \in associations : e.code = source}}

\* load_ccam_data: "active": r["date_end"] is None
Active(code) == ccam_codes[code].date_end = NULL

\* Confidence with the chapter test ahead of the official-edge test.
Confidence_ChapterFirst(sourceChapter, assocChapter, isOfficial) ==
    IF sourceChapter # NULL /\ assocChapter # NULL /\ sourceChapter = assocChapter
    THEN "same_chapter"
    ELSE IF isOfficial THEN "verified" ELSE "cross_chapter"

\* The if / elif / else chain that determines the confidence level.
Confidence(sourceChapter, assocChapter, isOfficial) ==
    IF isOfficial THEN "verified"
    ELSE IF sourceChapter # NULL /\ assocChapter # NULL /\ sourceChapter = assocChapter
         THEN "same_chapter"
         ELSE "cross_chapter"

\* Rules 1 and 2 alone: an expired code is kept.
Survives_NoExpiry(source, assocCode) ==
    assocCode # source /\ assocCode \in DOMAIN ccam_codes

\* Rules 1 to 3: self-reference, unknown code, expired code.
Survives(source, assocCode) ==
    /\ assocCode # source
    /\ assocCode \in DOMAIN ccam_codes
    /\ Active(assocCode)

ValidAssoc(source, assocCode) ==
    [code |-> assocCode,
     icr_public |-> ccam_codes[assocCode].icr_public,
     confidence |-> Confidence(ccam_codes[source].chapter_num,
                               ccam_codes[assocCode].chapter_num,
                               assocCode \in Official(source))]

\* The loop over assoc_list: the surviving candidates, in list order.
ValidAssocs(source, assocList) ==
    LET kept == SelectSeq(assocList, LAMBDA c : Survives(source, c))
    IN  [i \in DOMAIN kept |-> ValidAssoc(source, kept[i])]

ConfidenceOrder(confidence) ==
    CASE confidence = "verified" -> 0
      [] confidence = "same_chapter" -> 1
      [] confidence = "cross_chapter" -> 2
      [] OTHER -> 9

\* x["icr_public"] or 0
IcrOrZero(icr) == IF icr = NullNum THEN 0 ELSE icr[1]

\* The sort key (confidence_order, -icr) compared as Python compares tuples.
KeyLess(x, y) ==
    \/ ConfidenceOrder(x.confidence) < ConfidenceOrder(y.confidence)
    \/ /\ ConfidenceOrder(x.confidence) = ConfidenceOrder(y.confidence)
       /\ (0 - IcrOrZero(x.icr_public)) < (0 - IcrOrZero(y.icr_public))

\* list.sort is stable: x goes behind every element that is not greater.
RECURSIVE InsertSorted(_, _)
InsertSorted(x, sorted) ==
    IF sorted = <<>> THEN <<x>>
    ELSE IF KeyLess(x, Head(sorted)) THEN <<x>> \o sorted
         ELSE <<Head(sorted)>> \o InsertSorted(x, Tail(sorted))

\* The candidates left in the order of the scraped list.
SortAssocs_None(list) == list

RECURSIVE SortAssocs(_)
SortAssocs(list) ==
    IF list = <<>> THEN <<>>
    ELSE InsertSorted(list[Len(list)], SortAssocs(SubSeq(list, 1, Len(list) - 1)))

\* The dict written to validated_associations.json: a source code absent from
\* the catalogue is skipped, one with no surviving candidate gets no key.
validate ==
    LET sources == {s \in DOMAIN scraped \cap DOMAIN ccam_codes :
                        ValidAssocs(s, scraped[s]) # <<>>}
    IN  [s \in sources |-> SortAssocs(ValidAssocs(s, scraped[s]))]

Validate ==
    /\ validated' = [exists |-> TRUE, data |-> validate]
    /\ op' = [name |-> "validate"]
    /\ result' = NoResult
    /\ queries' = <<>>
    /\ UNCHANGED <<ccam_codes, associations, scraped, frequent_associations, integrate_pc, chapters, current_chapter>>

----------------------------------------------------------------------------
(* integrate_associations.integrate *)

FrequentRow(source, assoc, rank) ==
    [code |-> source, associated_code |-> assoc.code,
     icr_public |-> assoc.icr_public, confidence |-> assoc.confidence,
     rank |-> rank]

\* INSERT OR IGNORE under PRIMARY KEY (code, associated_code): the insert at
\* position i is ignored when an earlier position holds the same code.
Ignored(assocList, i) == \E j \in 1..(i - 1) : assocList[j].code = assocList[i].code

\* for rank, assoc in enumerate(assoc_list, 1)
InsertedRows(source, assocList) ==
    {FrequentRow(source, assocList[i], i) :
        i \in {k \in DOMAIN assocList : ~Ignored(assocList, k)}}

\* The inserts without the DROP and without a primary key: the rows of the
\* earlier run stay and the new ones are ranked behind them.
integrate_Accumulate(data) ==
    frequent_associations.rows \cup
    UNION {{FrequentRow(s, data[s][i], i + Cardinality(frequent_associations.rows)) :
                i \in DOMAIN data[s]} : s \in DOMAIN data}

\* DROP TABLE IF EXISTS, CREATE TABLE, then the inserts, then commit.
integrate(data) == UNION {InsertedRows(s, data[s]) : s \in DOMAIN data}

Integrate ==
    /\ integrate_pc = "idle"
    /\ chapters = <<>>
    /\ current_chapter = NoContext
    /\ validated.exists
    /\ frequent_associations' = [exists |-> TRUE, rows |-> integrate(validated.data)]
    /\ op' = [name |-> "integrate", replaced |-> frequent_associations.exists]
    /\ result' = NoResult
    /\ queries' = <<>>
    /\ UNCHANGED <<ccam_codes, associations, scraped, validated, integrate_pc, chapters, current_chapter>>

----------------------------------------------------------------------------
(* The classifier run: validate, then integrate *)

\* Rows the catalogue of a classifier run draws from: chapter and cost weight
\* set or not, one expired row.
ClassifyRows ==
    {CatalogRow(<<>>, NULL, "01", Num(1)), CatalogRow(<<>>, NULL, "02", Num(2)),
     CatalogRow(<<>>, NULL, NULL, NullNum), CatalogRow(<<>>, "2020-01-01", "01", Num(1))}

\* The source codes the scraper returned a list for.
ScrapeSources == {"AAAA001", "BBBB002"}

\* Raw candidate lists: any order, any repetition, MaxRaw candidates in all,
\* the second source holding at most one of them.
ScrapedLists ==
    {f \in [ScrapeSources -> SeqsUpTo(Codes, MaxRaw)] :
        /\ Len(f["AAAA001"]) + Len(f["BBBB002"]) <= MaxRaw
        /\ Len(f["BBBB002"]) <= 1}

InitClassify ==
    /\ \E D \in SUBSET Codes : ccam_codes \in [D -> ClassifyRows]
    /\ associations \in SubsetsUpTo(
            {Edge(c, t, "text") : c \in ScrapeSources \cap DOMAIN ccam_codes, t \in Codes}
                \ {Edge(c, c, "text") : c \in Codes},
            MaxEdges)
    /\ scraped \in ScrapedLists
    /\ validated = NoFile
    /\ frequent_associations = NoTable
    /\ op = NoCall
    /\ result = NoResult
    /\ queries = <<>>
    /\ integrate_pc = "idle"
    /\ chapters = <<>>
    /\ current_chapter = NoContext

NextClassify == Validate \/ Integrate

SpecClassify == InitClassify /\ [][NextClassify]_vars

----------------------------------------------------------------------------
(* CCAMSearch.get_code and CCAMSearch.get_billing_plan *)

\* SELECT * FROM ccam_codes WHERE code = ?  with the upper-cased code.
get_code(code) ==
    IF Upper(code) \in DOMAIN ccam_codes
    THEN [found |-> TRUE, code |-> Upper(code), row |-> ccam_codes[Upper(code)]]
    ELSE [found |-> FALSE]

\* cc.<column> of the LEFT JOIN: NULL when the associated code has no row.
JoinedIcr(code) ==
    IF code \in DOMAIN ccam_codes THEN ccam_codes[code].icr_public ELSE NullNum

JoinedDateEnd(code) ==
    IF code \in DOMAIN ccam_codes THEN ccam_codes[code].date_end ELSE NULL

\* CASE WHEN a.association_type = 'complementary_gesture' THEN 0 ELSE 1 END
TypeOrder(assocType) == IF assocType = "complementary_gesture" THEN 0 ELSE 1

\* The official query without its ORDER BY: any order is allowed.
OfficialOrdered_Any(a, b) == TRUE

\* ORDER BY of the official query: a before b is allowed.
OfficialOrdered(a, b) ==
    \/ TypeOrder(a.association_type) < TypeOrder(b.association_type)
    \/ /\ TypeOrder(a.association_type) = TypeOrder(b.association_type)
       /\ IcrOrZero(JoinedIcr(a.associated_code)) >= IcrOrZero(JoinedIcr(b.associated_code))

Orderings(S) ==
    {o \in [1..Cardinality(S) -> S] : \A i, j \in DOMAIN o : i # j => o[i] # o[j]}

\* The result sets the official query may return: every order of the edges of
\* code that respects ORDER BY (rows with equal keys come in either order).
OfficialRows(code) ==
    {o \in Orderings({a \in associations : a.code = code}) :
        \A i, j \in DOMAIN o : i < j => OfficialOrdered(o[i], o[j])}

OfficialItem(a) ==
    [code |-> a.associated_code,
     icr_public |-> JoinedIcr(a.associated_code),
     date_end |-> JoinedDateEnd(a.associated_code),
     expired |-> JoinedDateEnd(a.associated_code) # NULL]

\* The loop over the official rows: which list an item is appended to.
IsAnesthesia(a) == a.association_type = "complementary_anesthesia"

Gestures(rows) ==
    LET kept == SelectSeq(rows, LAMBDA a : ~IsAnesthesia(a))
    IN  [i \in DOMAIN kept |-> OfficialItem(kept[i])]

Anesthesia(rows) ==
    LET kept == SelectSeq(rows, LAMBDA a : IsAnesthesia(a))
    IN  [i \in DOMAIN kept |-> OfficialItem(kept[i])]

\* official_codes filled from the gesture rows only.
OfficialCodes_Gestures(rows) ==
    {rows[i].associated_code : i \in {k \in DOMAIN rows : ~IsAnesthesia(rows[k])}}

\* official_codes: every associated_code of the official rows.
OfficialCodes(rows) == {rows[i].associated_code : i \in DOMAIN rows}

\* SELECT ... FROM frequent_associations WHERE fa.code = ? ORDER BY fa.rank
RECURSIVE ByRank(_)
ByRank(S) ==
    IF S = {} THEN <<>>
    ELSE LET r == CHOOSE x \in S : \A y \in S : x.rank <= y.rank
         IN  <<r>> \o ByRank(S \ {r})

FrequentItem(r) ==
    [code |-> r.associated_code, icr_public |-> r.icr_public,
     confidence |-> r.confidence, rank |-> r.rank]

\* The frequent loop without its "continue" on official codes.
Frequent_NoExclusion(rows, officialCodes) ==
    [i \in DOMAIN rows |-> FrequentItem(rows[i])]

\* The loop over the frequent rows: "if r[associated_code] in official_codes: continue".
Frequent(rows, officialCodes) ==
    LET kept == SelectSeq(rows, LAMBDA r : r.associated_code \notin officialCodes)
    IN  [i \in DOMAIN kept |-> FrequentItem(kept[i])]

\* The plan built from one result set of the official query.  The frequent
\* query raises sqlite3.OperationalError while the table does not exist.
get_billing_plan(code, official) ==
    LET main == get_code(Upper(code)) IN
    IF ~main.found THEN [kind |-> "None"]
    ELSE IF ~frequent_associations.exists THEN [kind |-> "OperationalError"]
    ELSE [kind |-> "plan",
          main_code |-> main.code,
          complementary_gestures |-> Gestures(official),
          anesthesia_codes |-> Anesthesia(official),
          frequent_associations |->
              Frequent(ByRank({r \in frequent_associations.rows : r.code = Upper(code)}),
                       OfficialCodes(official))]

GetBillingPlan(code) ==
    /\ Idle
    /\ \E official \in OfficialRows(Upper(code)) :
            result' = get_billing_plan(code, official)
    /\ op' = [name |-> "get_billing_plan", code |-> code]
    /\ queries' = <<>>
    /\ UNCHANGED <<ccam_codes, associations, scraped, validated, frequent_associations, integrate_pc, chapters, current_chapter>>

\* The catalogue of the billing plans: the main code and two targets, each
\* absent, active or expired, with or without a cost weight.
PlanMain == "AAAA001"
PlanTargets == {"BBBB002", "CCCC003"}
PlanInputs == {"AAAA001", "aaaa001", "BBBB002"}
PlanMainRows == {CatalogRow(<<>>, d, NULL, NullNum) : d \in {NULL, "2020-01-01"}}
PlanTargetRows ==
    {CatalogRow(<<>>, NULL, NULL, NullNum), CatalogRow(<<>>, NULL, NULL, Num(2)),
     CatalogRow(<<>>, "2020-01-01", NULL, Num(1))}

InitPlan ==
    /\ \E D \in SUBSET Codes :
            ccam_codes \in {f \in [D -> PlanMainRows \cup PlanTargetRows] :
                                /\ PlanMain \in D => f[PlanMain] \in PlanMainRows
                                /\ \A t \in D \cap PlanTargets : f[t] \in PlanTargetRows}
    /\ associations \in SubsetsUpTo(
            EdgeUniverse({PlanMain} \cap DOMAIN ccam_codes, PlanTargets), MaxEdges)
    /\ scraped \in [{PlanMain} -> SeqsUpTo(PlanTargets, MaxRaw)]
    /\ validated = NoFile
    /\ frequent_associations = NoTable
    /\ op = NoCall
    /\ result = NoResult
    /\ queries = <<>>
    /\ integrate_pc = "idle"
    /\ chapters = <<>>
    /\ current_chapter = NoContext

NextPlan ==
    \/ Validate
    \/ Integrate
    \/ \E code \in PlanInputs : GetBillingPlan(code)
    \/ Return

SpecPlan == InitPlan /\ [][NextPlan]_vars

----------------------------------------------------------------------------
(* integrate() statement by statement, next to the readers of the web API *)

\* The sqlite3 module opens no transaction for DDL, so DROP TABLE and CREATE
\* TABLE are committed as they run; the first INSERT opens the transaction
\* that conn.commit() ends, and its rows are invisible to readers until then.
IntegrateDrop ==
    /\ integrate_pc = "idle"
    /\ chapters = <<>>
    /\ current_chapter = NoContext
    /\ validated.exists
    /\ frequent_associations' = NoTable
    /\ integrate_pc' = "dropped"
    /\ UNCHANGED <<ccam_codes, associations, scraped, validated, op, result, queries,
                   chapters, current_chapter>>

IntegrateCreate ==
    /\ integrate_pc = "dropped"
    /\ frequent_associations' = [exists |-> TRUE, rows |-> {}]
    /\ integrate_pc' = "created"
    /\ UNCHANGED <<ccam_codes, associations, scraped, validated, op, result, queries,
                   chapters, current_chapter>>

IntegrateCommit ==
    /\ integrate_pc = "created"
    /\ frequent_associations' = [exists |-> TRUE, rows |-> integrate(validated.data)]
    /\ integrate_pc' = "idle"
    /\ UNCHANGED <<ccam_codes, associations, scraped, validated, op, result, queries,
                   chapters, current_chapter>>

\* /api/stats: SELECT COUNT(*) FROM frequent_associations
api_stats ==
    IF ~frequent_associations.exists THEN [kind |-> "OperationalError"]
    ELSE [kind |-> "stats",
          frequent_associations |-> Cardinality(frequent_associations.rows)]

ApiStats ==
    /\ Idle
    /\ op' = [name |-> "api_stats"]
    /\ result' = api_stats
    /\ queries' = <<>>
    /\ UNCHANGED <<ccam_codes, associations, scraped, validated, frequent_associations,
                   integrate_pc, chapters, current_chapter>>

\* The database a classifier run is repeated on: the catalogue and edges of
\* the billing plans, the validated file and the table the previous run
\* published from it.
InitPublish ==
    /\ \E D \in SUBSET Codes :
            ccam_codes \in {f \in [D -> PlanMainRows \cup PlanTargetRows] :
                                /\ PlanMain \in D => f[PlanMain] \in PlanMainRows
                                /\ \A t \in D \cap PlanTargets : f[t] \in PlanTargetRows}
    /\ associations \in SubsetsUpTo(
            EdgeUniverse({PlanMain} \cap DOMAIN ccam_codes, PlanTargets), MaxEdges)
    /\ scraped \in [{PlanMain} -> SeqsUpTo(PlanTargets, MaxRaw)]
    /\ validated = [exists |-> TRUE, data |-> validate]
    /\ frequent_associations = [exists |-> TRUE, rows |-> integrate(validated.data)]
    /\ op = NoCall
    /\ result = NoResult
    /\ queries = <<>>
    /\ integrate_pc = "idle"
    /\ chapters = <<>>
    /\ current_chapter = NoContext

NextPublish ==
    \/ IntegrateDrop
    \/ IntegrateCreate
    \/ IntegrateCommit
    \/ ApiStats
    \/ \E code \in PlanInputs : GetBillingPlan(code)
    \/ Return

SpecPublish == InitPublish /\ [][NextPublish]_vars

----------------------------------------------------------------------------
(* check_compatibility run twice while the classifier republishes its table *)

\* The caller repeats its last check on the same code list.
CheckAgain ==
    /\ op.name = "check_compatibility"
    /\ op' = [name |-> "check_compatibility", codes |-> op.codes, run |-> 2]
    /\ result' = [kind |-> "issues", issues |-> check_compatibility(op.codes)]
    /\ queries' = <<>>
    /\ UNCHANGED <<ccam_codes, associations, scraped, validated, frequent_associations,
                   integrate_pc, chapters, current_chapter>>

\* The code lists checked twice.
RecheckLists == SeqsUpTo({PlanMain, "BBBB002"}, 2)

NextRecheck ==
    \/ IntegrateDrop
    \/ IntegrateCreate
    \/ IntegrateCommit
    \/ \E codes \in RecheckLists : CheckCompatibility(codes)
    \/ CheckAgain
    \/ Return

SpecRecheck == InitPublish /\ [][NextRecheck]_vars

----------------------------------------------------------------------------
(* build_ccam_db.parse_complementary_file: the chapter hierarchy *)

\* The four levels: chapter, subchapter, paragraph, subparagraph.
Levels == 0..3

ChapterNums == {"01", "01.01"}
ChapterTitles == {"t1", "t2"}

MaxCells == 1       \* most levels one spreadsheet row gives a number for

\* The chapter cells of a row after safe_str: per level a number and a title,
\* each possibly empty.
ChapterRows ==
    {r \in [num : [Levels -> ChapterNums \cup {NULL}],
            title : [Levels -> ChapterTitles \cup {NULL}]] :
        /\ Cardinality({l \in Levels : r.num[l] # NULL}) <= MaxCells
        /\ \A l \in Levels : r.num[l] = NULL => r.title[l] = NULL}

\* "Update current chapter context": a level keeps its number until a row
\* gives another one (the titles kept alongside are never read).
UpdateContext(context, row) ==
    [l \in Levels |-> IF row.num[l] # NULL THEN row.num[l] ELSE context[l]]

\* chapters_seen: the numbers already inserted.
ChaptersSeen(table) == {table[i].num : i \in DOMAIN table}

\* parent = current_chapter.get(<number key of the level above>)
ParentOf(context, level) == IF level = 0 THEN NULL ELSE context[level - 1]

\* "Insert chapters": levels 0 to 3 in turn, a number being inserted once.
RECURSIVE InsertChapters(_, _, _, _)
InsertChapters(table, context, row, level) ==
    IF level > 3 THEN table
    ELSE IF /\ row.num[level] # NULL
            /\ row.title[level] # NULL
            /\ row.num[level] \notin ChaptersSeen(table)
         THEN InsertChapters(
                Append(table, [num |-> row.num[level], title |-> row.title[level],
                               level |-> level,
                               parent_num |-> ParentOf(context, level)]),
                context, row, level + 1)
         ELSE InsertChapters(table, context, row, level + 1)

\* One iteration of the loop over the rows, for a row without a procedure
\* code (code_sub empty: "continue" after the chapters).
ParseRow ==
    \E row \in ChapterRows :
        /\ current_chapter' = UpdateContext(current_chapter, row)
        /\ chapters' = InsertChapters(chapters, UpdateContext(current_chapter, row), row, 0)
        /\ UNCHANGED <<ccam_codes, associations, scraped, validated, frequent_associations,
                       op, result, queries, integrate_pc>>

\* create_database has just made the empty tables.
InitBuild ==
    /\ ccam_codes = <<>>
    /\ associations = {}
    /\ scraped = <<>>
    /\ validated = NoFile
    /\ frequent_associations = NoTable
    /\ op = NoCall
    /\ result = NoResult
    /\ queries = <<>>
    /\ integrate_pc = "idle"
    /\ chapters = <<>>
    /\ current_chapter = NoContext

NextBuild == ParseRow

SpecBuild == InitBuild /\ [][NextBuild]_vars

----------------------------------------------------------------------------
(* Text normalisation: strip_accents, normalize_query, normalize_for_search *)
(* A text is a sequence of characters; each character is a one-name string. *)

\* The characters of the model: lower-case letters, an upper-case letter, an
\* accented letter in both cases, the combining accent NFKD splits off, the
\* script capital B (U+212C: a letter without a lower-case form that NFKD
\* turns into "B"), a space and a punctuation mark.
Letters == {"a", "b", "c", "d", "e"}
Chars ==
    Letters \cup {"B", "E", "e_acute", "E_ACUTE", "COMBINING_ACUTE", "SCRIPT_B", " ", "-"}

\* str.lower() on one character.
Lower(ch) ==
    CASE ch = "B" -> "b"
      [] ch = "E" -> "e"
      [] ch = "E_ACUTE" -> "e_acute"
      [] OTHER -> ch

\* unicodedata.normalize('NFKD', ch): the decomposition of one character.
NFKD(ch) ==
    CASE ch = "e_acute" -> <<"e", "COMBINING_ACUTE">>
      [] ch = "E_ACUTE" -> <<"E", "COMBINING_ACUTE">>
      [] ch = "SCRIPT_B" -> <<"B">>
      [] OTHER -> <<ch>>

\* unicodedata.combining(ch) is non-zero.
Combining(ch) == ch = "COMBINING_ACUTE"

\* \s and \w of the re module.
IsSpace(ch) == ch = " "
IsWord(ch) == ch \in Letters \cup {"B", "E", "e_acute", "E_ACUTE", "SCRIPT_B"}

MapText(f(_), text) == [i \in DOMAIN text |-> f(text[i])]

strip_accents(text) ==
    IF text = <<>> THEN <<>>
    ELSE SelectSeq(Flatten(MapText(NFKD, text)), LAMBDA ch : ~Combining(ch))

\* re.sub(r'[^\w\s]', ' ', text)
Punctuation(ch) == IF IsWord(ch) \/ IsSpace(ch) THEN ch ELSE " "

RECURSIVE LStrip(_)
LStrip(text) ==
    IF text # <<>> /\ IsSpace(Head(text)) THEN LStrip(Tail(text)) ELSE text

RECURSIVE RStrip(_)
RStrip(text) ==
    IF text # <<>> /\ IsSpace(text[Len(text)])
    THEN RStrip(SubSeq(text, 1, Len(text) - 1)) ELSE text

\* str.strip()
Strip(text) == RStrip(LStrip(text))

\* str.split(): the maximal runs of non-space characters.
RECURSIVE SplitFrom(_, _)
SplitFrom(text, word) ==
    IF text = <<>> THEN (IF word = <<>> THEN <<>> ELSE <<word>>)
    ELSE IF IsSpace(Head(text))
         THEN (IF word = <<>> THEN <<>> ELSE <<word>>) \o SplitFrom(Tail(text), <<>>)
         ELSE SplitFrom(Tail(text), Append(word, Head(text)))

Split(text) == SplitFrom(text, <<>>)

\* " ".join(words)
RECURSIVE Join(_)
Join(words) ==
    IF words = <<>> THEN <<>>
    ELSE IF Len(words) = 1 THEN words[1]
         ELSE words[1] \o <<" ">> \o Join(Tail(words))

\* The filter of short words dropping the words of three characters too.
DropShort_Three(tokens) ==
    IF Len(tokens) > 1 THEN SelectSeq(tokens, LAMBDA t : Len(t) > 3) ELSE tokens

\* The filter of short words applied to a single token as well.
DropShort_Always(tokens) == SelectSeq(tokens, LAMBDA t : Len(t) > 2)

\* The filter of short words: applied only when there is more than one token.
DropShort(tokens) ==
    IF Len(tokens) > 1 THEN SelectSeq(tokens, LAMBDA t : Len(t) > 2) ELSE tokens

\* The tokens of normalize_query before its filter: text.split().
QueryTokens(query) ==
    Split(MapText(Punctuation, strip_accents(Strip(MapText(Lower, query)))))

normalize_query(query) == DropShort(QueryTokens(query))

\* The text left as it is: runs of spaces are kept.
CollapseSpaces_None(text) == text

\* re.sub(r'\s+', ' ', text): every run of spaces becomes one space.
RECURSIVE CollapseSpaces(_)
CollapseSpaces(text) ==
    IF text = <<>> THEN <<>>
    ELSE IF IsSpace(Head(text))
         THEN <<" ">> \o CollapseSpaces(LStrip(text))
         ELSE <<Head(text)>> \o CollapseSpaces(Tail(text))

normalize_for_search(text) ==
    IF text = <<>> THEN <<>>
    ELSE Strip(CollapseSpaces(MapText(Punctuation, strip_accents(MapText(Lower, text)))))

----------------------------------------------------------------------------
(* The two normalisers called on their own *)

\* A Python argument: None or a str.
None == [type |-> "NoneType"]
Str(text) == [type |-> "str", value |-> text]

MaxText == 5        \* longest text handed to a normaliser

\* The characters the texts are made of.
TextChars == {"a", "b", "E_ACUTE", "COMBINING_ACUTE", "SCRIPT_B", " ", "-"}

\* The arguments: None and every text of up to MaxText characters.
NormalizerArgs == {None} \cup {Str(t) : t \in SeqsUpTo(TextChars, MaxText)}

\* normalize_query(arg): None has no lower(), so the call raises.
NormalizeQuery ==
    /\ Idle
    /\ \E arg \in NormalizerArgs :
        /\ op' = [name |-> "normalize_query", arg |-> arg]
        /\ result' = IF arg = None THEN [kind |-> "AttributeError"]
                      ELSE [kind |-> "tokens", tokens |-> normalize_query(arg.value)]
    /\ queries' = <<>>
    /\ UNCHANGED <<ccam_codes, associations, scraped, validated, frequent_associations,
                   integrate_pc, chapters, current_chapter>>

\* normalize_for_search(arg): "if not text: return ''" takes None and "".
NormalizeForSearch ==
    /\ Idle
    /\ \E arg \in NormalizerArgs :
        /\ op' = [name |-> "normalize_for_search", arg |-> arg]
        /\ result' = [kind |-> "text",
                       text |-> IF arg = None THEN <<>>
                                ELSE normalize_for_search(arg.value)]
    /\ queries' = <<>>
    /\ UNCHANGED <<ccam_codes, associations, scraped, validated, frequent_associations,
                   integrate_pc, chapters, current_chapter>>

InitNormalize ==
    /\ ccam_codes = <<>>
    /\ associations = {}
    /\ scraped = <<>>
    /\ validated = NoFile
    /\ frequent_associations = NoTable
    /\ op = NoCall
    /\ result = NoResult
    /\ queries = <<>>
    /\ integrate_pc = "idle"
    /\ chapters = <<>>
    /\ current_chapter = NoContext

NextNormalize ==
    \/ NormalizeQuery
    \/ NormalizeForSearch
    \/ Return

SpecNormalize == InitNormalize /\ [][NextNormalize]_vars

----------------------------------------------------------------------------
(* CCAMSearch.search *)

\* The tokens the FTS5 index holds for a normalised label (unicode61 splits on
\* every character that is no letter or digit).
FtsTokens(label) == Range(Split(label))

\* label_normalized MATCH 'w1 w2 ...': every bare word is a token of the label.
MatchAll(tokens, label) == \A i \in DOMAIN tokens : tokens[i] \in FtsTokens(label)

\* label_normalized MATCH 'w1 OR w2 ...'
MatchAny(tokens, label) == \E i \in DOMAIN tokens : tokens[i] \in FtsTokens(label)

IsPrefix(p, text) == Len(p) <= Len(text) /\ SubSeq(text, 1, Len(p)) = p

\* label LIKE '%t1%t2%...%': the tokens occur in this order without overlap
\* (the leftmost occurrence of each token is taken).
RECURSIVE LikeMatch(_, _)
LikeMatch(tokens, text) ==
    IF tokens = <<>> THEN TRUE
    ELSE IF Len(text) < Len(Head(tokens)) THEN FALSE
    ELSE IF IsPrefix(Head(tokens), text)
         THEN LikeMatch(Tail(tokens), SubSeq(text, Len(Head(tokens)) + 1, Len(text)))
         ELSE LikeMatch(tokens, Tail(text))

\* The active filter left out of the query.
ActiveFilter_Off(active_only, code) == TRUE

\* active_filter = "AND cc.date_end IS NULL" if active_only else ""
ActiveFilter(active_only, code) == active_only => ccam_codes[code].date_end = NULL

\* Strategy 1 with the tokens joined by OR.
Strategy1_Any(tokens, active_only) ==
    {c \in DOMAIN ccam_codes :
        MatchAny(tokens, ccam_codes[c].label_normalized) /\ ActiveFilter(active_only, c)}

\* Strategy 1: the rows of the conjunctive FTS query, before ORDER BY and LIMIT.
Strategy1(tokens, active_only) ==
    {c \in DOMAIN ccam_codes :
        MatchAll(tokens, ccam_codes[c].label_normalized) /\ ActiveFilter(active_only, c)}

\* Strategy 2: the rows of the disjunctive FTS query.
Strategy2(tokens, active_only) ==
    {c \in DOMAIN ccam_codes :
        MatchAny(tokens, ccam_codes[c].label_normalized) /\ ActiveFilter(active_only, c)}

\* Strategy 3: the rows of the LIKE query (it has no alias cc: see Strategy3Fails).
Strategy3(tokens) ==
    {c \in DOMAIN ccam_codes : LikeMatch(tokens, ccam_codes[c].label_normalized)}

\* The LIKE query reads FROM ccam_codes without the alias cc, so with the
\* active filter "AND cc.date_end IS NULL" SQLite refuses it (no such column).
Strategy3Fails(active_only) == active_only

\* "if not tokens: return []"
NoTokens_Never(tokens) == FALSE

NoTokens(tokens) == tokens = <<>>

\* The test of strategy 2 without its "len(tokens) > 1".
Tier2Needed_AnyLength(results, tokens) == results = <<>>

\* "if not results and len(tokens) > 1"
Tier2Needed(results, tokens) == results = <<>> /\ Len(tokens) > 1

\* "if not results" in front of the LIKE fallback
Tier3Needed(results) == results = <<>>

\* ORDER BY ... LIMIT ?: the first limit rows of the matches in the given order.
Fetch(order, matches, limit) == Take(Restrict(order, matches), limit)

\* SELECT code, COUNT(*) FROM <table> WHERE code IN (...) GROUP BY code
OfficialCount(code) == Cardinality({a \in associations : a.code = code})
\* The enrichment without its second count query.
FrequentCount_None(code) == 0

FrequentCount(code) == Cardinality({r \in frequent_associations.rows : r.code = code})

SearchRow(code) ==
    [code |-> code, date_end |-> ccam_codes[code].date_end,
     assoc_count |-> OfficialCount(code) + FrequentCount(code)]

\* The enrichment with association counts and the return.
Enrich(codes, log) ==
    IF codes = <<>> THEN [result |-> [kind |-> "rows", rows |-> <<>>], queries |-> log]
    ELSE IF ~frequent_associations.exists
         THEN [result |-> [kind |-> "OperationalError"],
               queries |-> log \o <<"count_official", "count_frequent">>]
         ELSE [result |-> [kind |-> "rows",
                           rows |-> [i \in DOMAIN codes |-> SearchRow(codes[i])]],
               queries |-> log \o <<"count_official", "count_frequent">>]

\* The body of search once the query is normalised, with bm25 the order in
\* which FTS5 ranks the matching rows for this query.
search(tokens, limit, active_only, bm25) ==
    IF NoTokens(tokens) THEN [result |-> [kind |-> "rows", rows |-> <<>>], queries |-> <<>>]
    ELSE
    LET r1 == Fetch(bm25, Strategy1(tokens, active_only), limit)
        q2 == Tier2Needed(r1, tokens)
        r2 == IF q2 THEN Fetch(bm25, Strategy2(tokens, active_only), limit) ELSE r1
        log2 == IF q2 THEN <<"fts_and", "fts_or">> ELSE <<"fts_and">>
    IN  IF ~Tier3Needed(r2) THEN Enrich(r2, log2)
        ELSE IF Strategy3Fails(active_only)
             THEN [result |-> [kind |-> "OperationalError"],
                   queries |-> Append(log2, "like")]
             ELSE Enrich(Fetch(RowOrder, Strategy3(tokens), limit), Append(log2, "like"))

\* The rows bm25 has to order: those of the FTS query that answers.
Ranked(tokens, active_only) ==
    Strategy1(tokens, active_only) \cup Strategy2(tokens, active_only)

Search(query, limit, active_only) ==
    /\ Idle
    /\ LET tokens == normalize_query(query) IN
        \E bm25 \in Orderings(Ranked(tokens, active_only)) :
            LET out == search(tokens, limit, active_only, bm25) IN
            /\ result' = out.result
            /\ queries' = out.queries
    /\ op' = [name |-> "search", query |-> query, limit |-> limit,
              active_only |-> active_only]
    /\ UNCHANGED <<ccam_codes, associations, scraped, validated, frequent_associations, integrate_pc, chapters, current_chapter>>

MaxQueryWords == 2  \* most words of a query
MaxLimit == 2       \* largest limit passed to search

\* The labels of the search catalogue, as the spreadsheet holds them.
LabelTexts ==
    {<<"B", "c", "d">>,
     <<"a", "b", "c", " ", "b", "c", "d">>,
     <<"a", "b", "c", "d", "-", "b", "c", "d", "e_acute">>}

\* The words a query is made of.
QueryWords ==
    {<<"a", "b", "c">>, <<"B", "c", "d">>, <<"a", "b">>, <<"d", "E_ACUTE">>}

\* A query: up to MaxQueryWords different words, one space between them.
Queries ==
    {Join(ws) : ws \in {q \in SeqsUpTo(QueryWords, MaxQueryWords) :
                            \A i, j \in DOMAIN q : i # j => q[i] # q[j]}}

SearchRows ==
    {CatalogRow(normalize_for_search(t), d, NULL, NullNum) :
        t \in LabelTexts, d \in {NULL, "2020-01-01"}}

\* The association tables of the search catalogue, as far as their codes are
\* catalogued: two source codes with edges, one of them with an observed row.
SearchEdges ==
    {Edge("AAAA001", "BBBB002", "text"), Edge("AAAA001", "BBBB002", "act123"),
     Edge("BBBB002", "AAAA001", "anesthesia")}

SearchObserved ==
    {[code |-> "AAAA001", associated_code |-> "BBBB002", icr_public |-> NullNum,
      confidence |-> "verified", rank |-> 1]}

InitSearch ==
    /\ \E D \in SUBSET Codes : ccam_codes \in [D -> SearchRows]
    /\ associations = {e \in SearchEdges : e.code \in DOMAIN ccam_codes}
    /\ frequent_associations =
         [exists |-> TRUE,
          rows |-> {r \in SearchObserved :
                        {r.code, r.associated_code} \subseteq DOMAIN ccam_codes}]
    /\ scraped = <<>>
    /\ validated = NoFile
    /\ op = NoCall
    /\ result = NoResult
    /\ queries = <<>>
    /\ integrate_pc = "idle"
    /\ chapters = <<>>
    /\ current_chapter = NoContext

NextSearch ==
    \/ \E query \in Queries, limit \in 1..MaxLimit, active_only \in BOOLEAN :
            Search(query, limit, active_only)
    \/ Return

SpecSearch == InitSearch /\ [][NextSearch]_vars

----------------------------------------------------------------------------
(* The query-time methods of CCAMSearch side by side *)

GetCode(code) ==
    /\ Idle
    /\ op' = [name |-> "get_code", code |-> code]
    /\ result' = [kind |-> "code", value |-> get_code(code)]
    /\ queries' = <<>>
    /\ UNCHANGED <<ccam_codes, associations, scraped, validated, frequent_associations,
                   integrate_pc, chapters, current_chapter>>

\* Position of a code in the collating order of its text.
CodeRank(code) == CHOOSE i \in DOMAIN RowOrder : RowOrder[i] = code

\* ORDER BY a.association_type, a.associated_code: a before b is allowed.
AssociationsOrdered(a, b) ==
    \/ TypeOrder(a.association_type) > TypeOrder(b.association_type)
    \/ /\ a.association_type = b.association_type
       /\ CodeRank(a.associated_code) <= CodeRank(b.associated_code)

AssociationItem(a) ==
    [associated_code |-> a.associated_code, association_type |-> a.association_type,
     activity |-> a.activity, icr_public |-> JoinedIcr(a.associated_code)]

\* The lists get_associations may return for the upper-cased code.
get_associations(code) ==
    {[i \in DOMAIN o |-> AssociationItem(o[i])] :
        o \in {r \in Orderings({a \in associations : a.code = Upper(code)}) :
                \A i, j \in DOMAIN r : i < j => AssociationsOrdered(r[i], r[j])}}

GetAssociations(code) ==
    /\ Idle
    /\ op' = [name |-> "get_associations", code |-> code]
    /\ \E rows \in get_associations(code) : result' = [kind |-> "associations", rows |-> rows]
    /\ queries' = <<>>
    /\ UNCHANGED <<ccam_codes, associations, scraped, validated, frequent_associations,
                   integrate_pc, chapters, current_chapter>>

\* A chapters table as the build leaves it for one chapter and its subchapter.
BuiltChapters ==
    <<[num |-> "01", title |-> "t1", level |-> 0, parent_num |-> NULL],
      [num |-> "01.01", title |-> "t2", level |-> 1, parent_num |-> "01"]>>

\* The database the web application serves: the search catalogue with its
\* two association tables and the chapters.
InitQuery ==
    /\ \E D \in SUBSET Codes : ccam_codes \in [D -> SearchRows]
    /\ associations = {e \in SearchEdges : e.code \in DOMAIN ccam_codes}
    /\ frequent_associations =
         [exists |-> TRUE,
          rows |-> {r \in SearchObserved :
                        {r.code, r.associated_code} \subseteq DOMAIN ccam_codes}]
    /\ scraped = <<>>
    /\ validated = NoFile
    /\ op = NoCall
    /\ result = NoResult
    /\ queries = <<>>
    /\ integrate_pc = "idle"
    /\ chapters = BuiltChapters
    /\ current_chapter = NoContext

NextQuery ==
    \/ \E query \in Queries, limit \in 1..MaxLimit, active_only \in BOOLEAN :
            Search(query, limit, active_only)
    \/ \E code \in InputCodes : GetCode(code)
    \/ \E code \in InputCodes : GetAssociations(code)
    \/ \E codes \in SeqsUpTo(CheckInputs, MaxCodes) : CheckCompatibility(codes)
    \/ \E code \in InputCodes : GetBillingPlan(code)
    \/ Return

SpecQuery == InitQuery /\ [][NextQuery]_vars

----------------------------------------------------------------------------
(* Claims about check_compatibility *)

IsCheck == op.name = "check_compatibility"

CheckedCodes == [i \in DOMAIN op.codes |-> Upper(op.codes[i])]

EdgesBetween(c1, c2) ==
    {a \in associations : a.code = c1 /\ a.associated_code = c2}

RECURSIVE SumOver(_, _)
SumOver(f, S) ==
    IF S = {} THEN 0
    ELSE LET x == CHOOSE y \in S : TRUE IN f[x] + SumOver(f, S \ {x})

PositionPairs(codes) == {p \in (DOMAIN codes) \X (DOMAIN codes) : p[1] < p[2]}

HasAssociationIssues(issues) == SelectSeq(issues, LAMBDA x : x.type = "has_association")

\* C1: for every pair of input positions i < j, each associations row in either
\* direction yields exactly one has_association issue, so the has_association
\* issues number as many as the edge rows of all position pairs, both
\* directions together, and each row of a pair is reported with its type and
\* activity.
C1_EveryEdgeBothDirections ==
    IsCheck =>
        LET codes == CheckedCodes
            pairs == PositionPairs(codes)
            n == [p \in pairs |->
                    Cardinality(EdgesBetween(codes[p[1]], codes[p[2]]))
                    + Cardinality(EdgesBetween(codes[p[2]], codes[p[1]]))]
            found == HasAssociationIssues(result.issues)
        IN  /\ Len(found) = SumOver(n, pairs)
            /\ \A p \in pairs :
                 \A a \in EdgesBetween(codes[p[1]], codes[p[2]])
                          \cup EdgesBetween(codes[p[2]], codes[p[1]]) :
                    \E k \in DOMAIN found :
                        /\ Range(found[k].codes) = {codes[p[1]], codes[p[2]]}
                        /\ found[k].association_type = a.association_type
                        /\ found[k].activity = a.activity

\* C2: checking two catalogued codes joined by a complementary_gesture edge
\* returns a has_association issue naming both and no ok issue, in either
\* listing order.
C2_GestureEdgeReported ==
    (/\ IsCheck
     /\ Len(op.codes) = 2
     /\ CheckedCodes[1] # CheckedCodes[2]
     /\ Range(CheckedCodes) \subseteq DOMAIN ccam_codes
     /\ \E a \in associations :
            /\ a.association_type = "complementary_gesture"
            /\ {a.code, a.associated_code} = Range(CheckedCodes))
    => /\ \E k \in DOMAIN result.issues :
            /\ result.issues[k].type = "has_association"
            /\ Range(result.issues[k].codes) = Range(CheckedCodes)
       /\ \A k \in DOMAIN result.issues : result.issues[k].type # "ok"

IssuesOf(type, code) ==
    SelectSeq(result.issues, LAMBDA x : x.type = type /\ x.code = code)

Positions(codes, code) == {i \in DOMAIN codes : codes[i] = code}

\* C11: every input position yields exactly one unknown_code issue when its
\* code is not catalogued, otherwise exactly one expired_code issue when its
\* date_end is set, otherwise neither, so a code listed k times yields k such
\* issues and no other code is named; an expired code is still paired with
\* the codes listed after it; a single unknown code returns its unknown_code
\* issue alone, without an ok issue.
C11_OneIssuePerPosition ==
    IsCheck =>
        LET codes == CheckedCodes IN
        /\ \A c \in Codes :
            LET k == Cardinality(Positions(codes, c))
                unknown == c \notin DOMAIN ccam_codes
                expired == ~unknown /\ ccam_codes[c].date_end # NULL
            IN  /\ Len(IssuesOf("unknown_code", c)) = (IF unknown THEN k ELSE 0)
                /\ Len(IssuesOf("expired_code", c)) = (IF expired THEN k ELSE 0)
        /\ \A p \in PositionPairs(codes) :
            (/\ codes[p[1]] \in DOMAIN ccam_codes
             /\ ccam_codes[codes[p[1]]].date_end # NULL)
            => \A a \in EdgesBetween(codes[p[1]], codes[p[2]]) :
                  \E k \in DOMAIN result.issues :
                      /\ result.issues[k].type = "has_association"
                      /\ result.issues[k].codes = <<codes[p[1]], codes[p[2]]>>
                      /\ result.issues[k].activity = a.activity
        /\ (Len(codes) = 1 /\ codes[1] \notin DOMAIN ccam_codes)
            => result.issues = <<UnknownIssue(codes[1])>>

\* C11 witness: an expired code with an edge to the code listed after it,
\* which is not catalogued and is listed twice.
C11_Witness ==
    /\ IsCheck /\ Len(op.codes) = 3
    /\ LET codes == CheckedCodes IN
        /\ codes[1] \in DOMAIN ccam_codes /\ ccam_codes[codes[1]].date_end # NULL
        /\ codes[2] = codes[3] /\ codes[2] \notin DOMAIN ccam_codes
        /\ EdgesBetween(codes[1], codes[2]) # {}
        /\ Len(IssuesOf("unknown_code", codes[2])) = 2
        /\ Len(IssuesOf("expired_code", codes[1])) = 1
        /\ Len(HasAssociationIssues(result.issues)) >= 2

IssueTypes == {result.issues[k].type : k \in DOMAIN result.issues}

\* C12: the checker never returns an empty list; the list holds an ok issue
\* exactly when it holds no unknown_code, expired_code or has_association
\* issue, and it is then that one ok issue alone.
C12_OkIffNoIssue ==
    IsCheck =>
        /\ result.issues # <<>>
        /\ "ok" \in IssueTypes
            <=> IssueTypes \cap {"unknown_code", "expired_code", "has_association"} = {}
        /\ "ok" \in IssueTypes => result.issues = <<OkIssue>>

\* C12 witness: two different catalogued, active codes without an edge
\* between them are checked and the one ok issue comes back.
C12_Witness ==
    /\ IsCheck /\ Len(op.codes) = 2
    /\ CheckedCodes[1] # CheckedCodes[2]
    /\ \A i \in 1..2 :
            /\ CheckedCodes[i] \in DOMAIN ccam_codes
            /\ ccam_codes[CheckedCodes[i]].date_end = NULL
    /\ EdgesBetween(CheckedCodes[1], CheckedCodes[2]) = {}
    /\ EdgesBetween(CheckedCodes[2], CheckedCodes[1]) = {}
    /\ result.issues = <<OkIssue>>

----------------------------------------------------------------------------
(* Claims about the classifier *)

RowsOf(source) == {r \in frequent_associations.rows : r.code = source}

\* C5: after validate and integrate, the ranks of the N rows of every source
\* code are exactly 1..N, whatever the raw candidate list holds.
C5_RanksContiguous ==
    frequent_associations.exists =>
        \A s \in Codes :
            {r.rank : r \in RowsOf(s)} = 1..Cardinality(RowsOf(s))

IsOfficialTarget(source, target) ==
    \E e \in associations : e.code = source /\ e.associated_code = target

SameChapter(c1, c2) ==
    /\ ccam_codes[c1].chapter_num # NULL
    /\ ccam_codes[c2].chapter_num # NULL
    /\ ccam_codes[c1].chapter_num = ccam_codes[c2].chapter_num

RuleChain(source, target, confidence) ==
    /\ IsOfficialTarget(source, target) => confidence = "verified"
    /\ ~IsOfficialTarget(source, target) /\ SameChapter(source, target)
            => confidence = "same_chapter"
    /\ ~IsOfficialTarget(source, target) /\ ~SameChapter(source, target)
            => confidence = "cross_chapter"

C21_RowsAreValid ==
    /\ frequent_associations.exists =>
        /\ \A r \in frequent_associations.rows :
            /\ r.associated_code # r.code
            /\ r.associated_code \in DOMAIN ccam_codes
            /\ ccam_codes[r.associated_code].date_end = NULL
            /\ r.code \in DOMAIN ccam_codes
        /\ \A s \in Codes :
            (s \in DOMAIN scraped =>
                \A i \in DOMAIN scraped[s] :
                    \/ scraped[s][i] = s
                    \/ scraped[s][i] \notin DOMAIN ccam_codes
                    \/ ccam_codes[scraped[s][i]].date_end # NULL)
            => RowsOf(s) = {}
    /\ validated.exists =>
        \A s \in DOMAIN validated.data : validated.data[s] # <<>>

\* C21 witness: the table holds a row of a source code one of whose other
\* candidates was expired, while a second catalogued source code, whose only
\* candidate was itself, has no row.
C21_Witness ==
    /\ frequent_associations.exists
    /\ \E s \in DOMAIN scraped \cap DOMAIN ccam_codes :
        /\ RowsOf(s) # {}
        /\ \E i \in DOMAIN scraped[s] :
            /\ scraped[s][i] \in DOMAIN ccam_codes
            /\ ccam_codes[scraped[s][i]].date_end # NULL
    /\ \E s \in DOMAIN scraped \cap DOMAIN ccam_codes :
        /\ scraped[s] = <<s>>
        /\ RowsOf(s) = {}

\* C24: within the rows of one source code the ranks follow the sort of the
\* classifier: of two rows the one with the lower rank has a confidence that
\* is not weaker (verified, same_chapter, cross_chapter) and, when the
\* confidences are equal, an icr_public (0 when missing) that is not smaller.
C24_RanksFollowSort ==
    frequent_associations.exists =>
        \A r1, r2 \in frequent_associations.rows :
            (r1.code = r2.code /\ r1.rank < r2.rank) =>
                /\ ConfidenceOrder(r1.confidence) <= ConfidenceOrder(r2.confidence)
                /\ r1.confidence = r2.confidence
                        => IcrOrZero(r1.icr_public) >= IcrOrZero(r2.icr_public)

\* Position of the first occurrence of a code in a list.
FirstIndex(list, code) ==
    CHOOSE i \in DOMAIN list : list[i] = code /\ \A j \in 1..(i - 1) : list[j] # code

\* C24 witness: two rows of one source code with the same confidence and
\* different cost weights, ranked in the reverse of their scraped order.
C24_Witness ==
    /\ frequent_associations.exists
    /\ \E r1, r2 \in frequent_associations.rows :
        /\ r1.code = r2.code /\ r1.rank < r2.rank
        /\ r1.confidence = r2.confidence
        /\ IcrOrZero(r1.icr_public) > IcrOrZero(r2.icr_public)
        /\ FirstIndex(scraped[r1.code], r1.associated_code)
                > FirstIndex(scraped[r1.code], r2.associated_code)

\* C25: the classifier is idempotent: the catalogue, the associations table
\* and the raw lists being what they were, a further validate leaves the
\* validated file and a further integrate leaves frequent_associations with
\* exactly the rows, confidences and ranks of the run before.
C25_Idempotent ==
    [][/\ (validated.exists /\ op'.name = "validate") => validated' = validated
       /\ (frequent_associations.exists /\ op'.name = "integrate")
            => frequent_associations' = frequent_associations]_vars

\* C25 witness: integrate has replaced the table of an earlier run, and the
\* table holds rows of different confidences.
C25_Witness ==
    /\ op.name = "integrate" /\ op.replaced
    /\ \E r1, r2 \in frequent_associations.rows :
            r1.code = r2.code /\ r1.confidence # r2.confidence

----------------------------------------------------------------------------
(* Claims about get_billing_plan *)

IsPlan == op.name = "get_billing_plan" /\ result.kind = "plan"

PlanCode == Upper(op.code)

Occurrences(items, code) == Len(SelectSeq(items, LAMBDA x : x.code = code))

EdgeTargets(code) == {e.associated_code : e \in {a \in associations : a.code = code}}

ObservedTargets(code) ==
    {r.associated_code : r \in {x \in frequent_associations.rows : x.code = code}}

\* C3: a target with both an authoritative edge and an observed row from the
\* plan's code appears exactly once in the whole plan, in the authoritative
\* group, whatever the associations table holds.
C3_TargetListedOnce ==
    IsPlan =>
        \A t \in EdgeTargets(PlanCode) \cap ObservedTargets(PlanCode) :
            /\ Occurrences(result.complementary_gestures, t)
                 + Occurrences(result.anesthesia_codes, t) = 1
            /\ Occurrences(result.frequent_associations, t) = 0

\* C4: frequent_associations is exactly the observed rows of the plan's code
\* whose target is the target of none of its authoritative edges, in ascending
\* rank order, and shares no code with the two authoritative lists.
C4_FrequentGroup ==
    IsPlan =>
        LET freq == result.frequent_associations
            wanted == {r \in frequent_associations.rows :
                          /\ r.code = PlanCode
                          /\ r.associated_code \notin EdgeTargets(PlanCode)}
        IN  /\ Len(freq) = Cardinality(wanted)
            /\ \A r \in wanted : \E i \in DOMAIN freq :
                    /\ freq[i].code = r.associated_code
                    /\ freq[i].rank = r.rank
                    /\ freq[i].confidence = r.confidence
                    /\ freq[i].icr_public = r.icr_public
            /\ \A i, j \in DOMAIN freq : i < j => freq[i].rank < freq[j].rank
            /\ \A i \in DOMAIN freq :
                    /\ Occurrences(result.complementary_gestures, freq[i].code) = 0
                    /\ Occurrences(result.anesthesia_codes, freq[i].code) = 0

\* C4 witness: a plan whose frequent group lists one observed target while
\* another observed target is held back because an authoritative edge names it.
C4_Witness ==
    /\ IsPlan
    /\ Len(result.frequent_associations) = 1
    /\ Len(result.complementary_gestures) + Len(result.anesthesia_codes) >= 1
    /\ Cardinality(ObservedTargets(PlanCode)) = 2
    /\ EdgeTargets(PlanCode) \cap ObservedTargets(PlanCode) # {}

OfficialItems == result.complementary_gestures \o result.anesthesia_codes

EdgesOfType(code, target, type) ==
    {a \in associations : /\ a.code = code /\ a.associated_code = target
                          /\ a.association_type = type}

DescendingIcr(items) ==
    \A i, j \in DOMAIN items :
        i < j => IcrOrZero(items[i].icr_public) >= IcrOrZero(items[j].icr_public)

ItemsMatchCatalog(items) ==
    \A i \in DOMAIN items :
        LET t == items[i].code IN
        /\ items[i].icr_public =
                (IF t \in DOMAIN ccam_codes THEN ccam_codes[t].icr_public ELSE NullNum)
        /\ items[i].expired <=>
                (t \in DOMAIN ccam_codes /\ ccam_codes[t].date_end # NULL)

\* C26: complementary_gestures holds one item for each complementary_gesture
\* edge of the plan's code and anesthesia_codes one for each
\* complementary_anesthesia edge, and nothing else; each list is in descending
\* order of the target's icr_public, null counting as 0; an item's expired
\* flag is true exactly when its target has a date_end.
C26_OfficialGroups ==
    IsPlan =>
        /\ \A t \in Codes :
            /\ Occurrences(result.complementary_gestures, t)
                    = Cardinality(EdgesOfType(PlanCode, t, "complementary_gesture"))
            /\ Occurrences(result.anesthesia_codes, t)
                    = Cardinality(EdgesOfType(PlanCode, t, "complementary_anesthesia"))
        /\ \A i \in DOMAIN OfficialItems : OfficialItems[i].code \in Codes
        /\ DescendingIcr(result.complementary_gestures)
        /\ DescendingIcr(result.anesthesia_codes)
        /\ ItemsMatchCatalog(OfficialItems)

\* C26 witness: a plan with two gestures of different cost weights, the
\* second of them expired.
C26_Witness ==
    /\ IsPlan
    /\ Len(result.complementary_gestures) = 2
    /\ IcrOrZero(result.complementary_gestures[1].icr_public)
            > IcrOrZero(result.complementary_gestures[2].icr_public)
    /\ result.complementary_gestures[2].expired
    /\ ~result.complementary_gestures[1].expired

\* C27: when frequent_associations was classified against the associations
\* table the plan reads, no item of a plan's frequent_associations has the
\* confidence verified.
C27_NoVerifiedInFrequent ==
    (IsPlan /\ validated.exists /\ frequent_associations.rows = integrate(validate)) =>
        \A i \in DOMAIN result.frequent_associations :
            result.frequent_associations[i].confidence # "verified"

\* C27 witness: the table holds a verified row towards an anesthesia edge
\* target of the plan's code, which the plan lists under anesthesia_codes, and
\* the frequent group holds the other observed row.
C27_Witness ==
    /\ IsPlan /\ validated.exists
    /\ frequent_associations.rows = integrate(validate)
    /\ \E r \in frequent_associations.rows :
        /\ r.code = PlanCode /\ r.confidence = "verified"
        /\ Occurrences(result.anesthesia_codes, r.associated_code) = 1
        /\ Occurrences(result.complementary_gestures, r.associated_code) = 0
    /\ Len(result.frequent_associations) = 1

\* C13: get_billing_plan returns None exactly when the upper-cased code is not
\* catalogued; for every catalogued code, expired or not, with or without
\* associations, it returns a plan whose main_code is the catalogue entry of
\* that code.
C13_NotFoundIffAbsent ==
    op.name = "get_billing_plan" =>
        /\ result.kind = "None" <=> Upper(op.code) \notin DOMAIN ccam_codes
        /\ Upper(op.code) \in DOMAIN ccam_codes =>
                /\ result.kind = "plan"
                /\ result.main_code = Upper(op.code)

\* C15: no edge towards a code that is not catalogued shows at query time:
\* every item of complementary_gestures and anesthesia_codes of a plan, and
\* both codes of every has_association issue of a check, are catalogued.
C15_NoDanglingEdge ==
    /\ IsPlan =>
            \A i \in DOMAIN OfficialItems : OfficialItems[i].code \in DOMAIN ccam_codes
    /\ IsCheck =>
            \A k \in DOMAIN result.issues :
                result.issues[k].type = "has_association"
                    => Range(result.issues[k].codes) \subseteq DOMAIN ccam_codes

----------------------------------------------------------------------------
(* Claims about the publication of frequent_associations *)

IsReader == op.name \in {"api_stats", "get_billing_plan"}

\* C14: the table is published atomically: a reader running next to
\* integrate() never finds the table missing, and the number of rows it sees
\* is that of the complete table (here the previous and the new table are the
\* same, the run being repeated on the same validated file), never that of
\* an empty or partly filled one.
C14_AtomicPublish ==
    IsReader =>
        /\ result.kind # "OperationalError"
        /\ op.name = "api_stats" =>
                result.frequent_associations = Cardinality(integrate(validated.data))

----------------------------------------------------------------------------
(* Claims about search *)

IsSearch == op.name = "search"

\* The tier queries of the last search, in the order they were executed.
TierLog == SelectSeq(queries, LAMBDA q : q \in {"fts_and", "fts_or", "like"})

Queried(tier) == \E i \in DOMAIN queries : queries[i] = tier

Passes(code) == op.active_only => ccam_codes[code].date_end = NULL

Words(code) == Range(Split(ccam_codes[code].label_normalized))

\* What each tier returns for the tokens of a query, after the activeOnly filter.
AndMatches(tokens) ==
    {c \in DOMAIN ccam_codes :
        Passes(c) /\ \A i \in DOMAIN tokens : tokens[i] \in Words(c)}

OrMatches(tokens) ==
    {c \in DOMAIN ccam_codes :
        Passes(c) /\ \E i \in DOMAIN tokens : tokens[i] \in Words(c)}

LikeMatches(tokens) ==
    {c \in DOMAIN ccam_codes : LikeMatch(tokens, ccam_codes[c].label_normalized)}

ReturnedCodes ==
    IF result.kind = "rows" THEN {result.rows[i].code : i \in DOMAIN result.rows} ELSE {}

\* C7: the tiers are queried in a fixed order and the first non-empty one
\* wins: the OR tier only after an empty AND tier and for more than one
\* token, the LIKE tier only after every earlier queried tier was empty, and
\* the returned rows all come from the last tier queried.  A tier is empty
\* when no row is left after the activeOnly filter.
C7_TierOrder ==
    IsSearch =>
        LET tokens == normalize_query(op.query)
            and == AndMatches(tokens)
            or == OrMatches(tokens)
            log == TierLog
        IN  /\ log \in {<<>>, <<"fts_and">>, <<"fts_and", "fts_or">>,
                        <<"fts_and", "like">>, <<"fts_and", "fts_or", "like">>}
            /\ Queried("fts_or") => and = {} /\ Len(tokens) > 1
            /\ Queried("like") =>
                    /\ and = {}
                    /\ Queried("fts_or") => or = {}
            /\ tokens # <<>> /\ and # {} => log = <<"fts_and">>
            /\ log = <<"fts_and">> => ReturnedCodes \subseteq and
            /\ log = <<"fts_and", "fts_or">> => ReturnedCodes \subseteq or
            /\ Queried("like") => ReturnedCodes \subseteq LikeMatches(tokens)
            /\ log = <<>> => ReturnedCodes = {}

\* C7 witness: the AND tier matched only an expired code, so with activeOnly
\* it counted as empty, and the OR tier was queried next and answered.
C7_Witness ==
    /\ IsSearch /\ op.active_only
    /\ LET tokens == normalize_query(op.query) IN
        \E c \in DOMAIN ccam_codes : \A i \in DOMAIN tokens : tokens[i] \in Words(c)
    /\ TierLog = <<"fts_and", "fts_or">>
    /\ ReturnedCodes # {}

Min(a, b) == IF a <= b THEN a ELSE b

C9_ActiveOnlyAndLimit ==
    (IsSearch /\ result.kind = "rows") =>
        /\ Len(result.rows) <= op.limit
        /\ op.active_only =>
                \A i \in DOMAIN result.rows :
                    /\ result.rows[i].date_end = NULL
                    /\ ccam_codes[result.rows[i].code].date_end = NULL

\* C9 witness: an activeOnly search answered by the OR tier that left out an
\* expired entry holding a token and cut the active ones at the limit.
C9_Witness ==
    /\ IsSearch /\ op.active_only
    /\ TierLog = <<"fts_and", "fts_or">>
    /\ result.kind = "rows" /\ Len(result.rows) = op.limit
    /\ LET tokens == normalize_query(op.query) IN
        /\ \E c \in DOMAIN ccam_codes :
                /\ ccam_codes[c].date_end # NULL
                /\ \E i \in DOMAIN tokens : tokens[i] \in Words(c)
        /\ Cardinality(OrMatches(tokens)) > op.limit

\* C10: a query that normalises to zero tokens returns the empty list at once:
\* no tier is queried and no association count is looked up.
C10_NoTokensNoQuery ==
    (IsSearch /\ normalize_query(op.query) = <<>>) =>
        /\ result = [kind |-> "rows", rows |-> <<>>]
        /\ queries = <<>>

\* C10 witness: a query of two short words, all dropped, over a catalogue in
\* which the LIKE tier would have found one of them.
C10_Witness ==
    /\ IsSearch
    /\ op.query # <<>>
    /\ normalize_query(op.query) = <<>>
    /\ \E c \in DOMAIN ccam_codes :
            LikeMatch(<<<<"a", "b">>>>, ccam_codes[c].label_normalized)
    /\ result.kind = "rows" /\ result.rows = <<>>

\* C20: every entry search returns carries assoc_count, the number of
\* associations rows with its code as source plus the number of
\* frequent_associations rows with its code as source, a target held by both
\* tables counting twice; the count is 0 for a code that is a source in
\* neither table.
C20_AssocCount ==
    (IsSearch /\ result.kind = "rows") =>
        \A i \in DOMAIN result.rows :
            LET c == result.rows[i].code
                edges == {e \in associations : e.code = c}
                observed == {r \in frequent_associations.rows : r.code = c}
            IN  /\ result.rows[i].assoc_count
                        = Cardinality(edges) + Cardinality(observed)
                /\ (edges = {} /\ observed = {}) => result.rows[i].assoc_count = 0

\* C20 witness: a search returned a code that is a source in neither table
\* with count 0, and a code with two edges and an observed row towards the
\* same target with count 3.
C20_Witness ==
    /\ IsSearch /\ result.kind = "rows"
    /\ \E i, j \in DOMAIN result.rows :
        /\ result.rows[i].assoc_count = 0
        /\ result.rows[j].assoc_count = 3
        /\ \E e \in associations, r \in frequent_associations.rows :
                /\ e.code = result.rows[j].code /\ r.code = e.code
                /\ r.associated_code = e.associated_code

----------------------------------------------------------------------------
(* Claims about the query-time methods as a whole *)

QueryOps ==
    {"search", "get_code", "get_associations", "check_compatibility", "get_billing_plan"}

C23_IndependentOfObserved ==
    [][(/\ op.name = "check_compatibility"
        /\ op'.name = "check_compatibility"
        /\ op'.codes = op.codes
        /\ ccam_codes' = ccam_codes
        /\ associations' = associations)
            => result'.issues = result.issues]_vars

\* C23 witness: a second run returned a has_association issue while the table
\* the previous classifier run had filled was dropped or still empty.
C23_Witness ==
    /\ IsCheck /\ "run" \in DOMAIN op
    /\ integrate(validated.data) # {}
    /\ frequent_associations.rows = {}
    /\ integrate_pc # "idle"
    /\ HasAssociationIssues(result.issues) # <<>>

----------------------------------------------------------------------------
(* Claims about the normalisers *)

IsNormalizeQuery == op.name = "normalize_query" /\ result.kind = "tokens"

\* C16: when the query splits into more than one token, the result is the
\* tokens longer than two characters in their original order, every shorter
\* one being dropped; when it splits into exactly one token, that token is
\* the result whatever its length.
C16_ShortTokensDropped ==
    IsNormalizeQuery =>
        LET pre == QueryTokens(op.arg.value) IN
        /\ Len(pre) > 1 => result.tokens = SelectSeq(pre, LAMBDA t : Len(t) > 2)
        /\ Len(pre) = 1 => result.tokens = pre

\* C16 witness: a query of several tokens of which a short one was dropped
\* and a long one kept.
C16_Witness ==
    /\ IsNormalizeQuery
    /\ LET pre == QueryTokens(op.arg.value) IN
        /\ Len(pre) > 1
        /\ result.tokens # <<>>
        /\ Len(result.tokens) < Len(pre)

\* C17: the query normaliser is idempotent: normalising its own tokens joined
\* by single spaces gives the same tokens again.
C17_Idempotent ==
    IsNormalizeQuery => normalize_query(Join(result.tokens)) = result.tokens

\* C18: build-time and query-time normalisation agree: for every text the
\* stored normalize_for_search(text) is the tokens normalize_query makes
\* before its filter, joined by single spaces.
C18_BuildAgreesWithQuery ==
    (op.name = "normalize_for_search" /\ op.arg # None) =>
        result.text = Join(QueryTokens(op.arg.value))

\* C18 witness: a text with an accented capital, a punctuation mark and a
\* space at its start, whose stored form is shorter than the text.
C18_Witness ==
    /\ op.name = "normalize_for_search" /\ op.arg # None
    /\ Len(op.arg.value) = MaxText
    /\ op.arg.value[1] = " "
    /\ "E_ACUTE" \in Range(op.arg.value)
    /\ \E i \in 1..(Len(op.arg.value) - 1) :
            op.arg.value[i] = "-" /\ op.arg.value[i + 1] = " "
    /\ Len(Split(result.text)) = 2

\* C19: the normalisers are total and deterministic: each call returns the
\* value its argument determines, and None or the empty text gives the empty
\* token sequence (normalize_query) or the empty string
\* (normalize_for_search), no call raising.
C19_TotalAndDeterministic ==
    /\ op.name = "normalize_query" =>
            /\ result.kind = "tokens"
            /\ result.tokens =
                    (IF op.arg = None THEN <<>> ELSE normalize_query(op.arg.value))
            /\ (op.arg = None \/ op.arg = Str(<<>>)) => result.tokens = <<>>
    /\ op.name = "normalize_for_search" =>
            /\ result.kind = "text"
            /\ (op.arg = None \/ op.arg = Str(<<>>)) => result.text = <<>>

HasLetterOrDigit(text) == \E i \in DOMAIN text : IsWord(text[i])

\* C28 as stated: normalize_query returns at least one token for every query
\* that holds a letter or a digit, a query of several words of one or two
\* characters included.
C28_NonEmptyForAnyWord ==
    (IsNormalizeQuery /\ HasLetterOrDigit(op.arg.value)) => result.tokens # <<>>

\* C28 amended: a query that holds a letter or a digit splits into at least
\* one token; normalize_query returns a non-empty list when the query is a
\* single word or holds a word of more than two characters, and the empty
\* list when it is made of several words that all have one or two characters.
C28_NonEmptyUnlessAllShort ==
    IsNormalizeQuery =>
        LET pre == QueryTokens(op.arg.value) IN
        /\ HasLetterOrDigit(op.arg.value) => pre # <<>>
        /\ (Len(pre) = 1 \/ \E i \in DOMAIN pre : Len(pre[i]) > 2)
                => result.tokens # <<>>
        /\ (Len(pre) > 1 /\ \A i \in DOMAIN pre : Len(pre[i]) <= 2)
                => result.tokens = <<>>

\* C28 witness: a query of two words of two characters each came back with
\* no token.
C28_Witness ==
    /\ IsNormalizeQuery
    /\ LET pre == QueryTokens(op.arg.value) IN
        /\ Len(pre) = 2
        /\ Len(pre[1]) = 2 /\ Len(pre[2]) = 2
    /\ result.tokens = <<>>

----------------------------------------------------------------------------
(* Claims about the chapter hierarchy *)

ParentRegistered(i) ==
    \E j \in 1..(i - 1) :
        /\ chapters[j].num = chapters[i].parent_num
        /\ chapters[j].level = chapters[i].level - 1

\* C29: whatever rows the build has processed, every chapter of level 1 to 3
\* has a parent_num naming a chapter registered before it at the level just
\* above, every chapter of level 0 has no parent_num, and a registered
\* chapter keeps its title, level and parent when its number comes again.
C29_ChapterTree ==
    /\ [](\A i \in DOMAIN chapters :
            /\ chapters[i].level = 0 => chapters[i].parent_num = NULL
            /\ chapters[i].level \in 1..3 => ParentRegistered(i))
    /\ [][/\ Len(chapters') >= Len(chapters)
           /\ \A i \in DOMAIN chapters : chapters'[i] = chapters[i]
           /\ \A a, b \in DOMAIN chapters' :
                    a # b => chapters'[a].num # chapters'[b].num]_vars

====
